---- MODULE Spec2Model ----
(***************************************************************************)
(* Model of ternary/heatmapping.py: triangular and hexagonal heatmaps over *)
(* the lattice of the 2-simplex  i + j + k = scale.                        *)
(*                                                                         *)
(* Representation of Python values:                                        *)
(*   None            the empty tuple <<>>                                  *)
(*   a number n/d    the pair <<n, d>> with d > 0 (an int v is <<v, 1>>;    *)
(*                   s / 3. is <<n, 3 * d>>, the mean kept as a fraction)   *)
(*   a tuple key     a TLA+ tuple <<i, j>> or <<i, j, k>>                   *)
(*   a dict          a function from its keys to its values                *)
(*   a str           the sequence of its characters                        *)
(*   a call's result [val |-> value, err |-> "ok"] or, when it raises,      *)
(*                   [val |-> None, err |-> name of the exception]          *)
(* The interpreter is Python 2 (data.keys()[0], map() returning a list,    *)
(* implicit relative imports): None orders below every number.             *)
(* Coordinates returned by hexagon_coordinates are in sixths of a lattice  *)
(* step (each component is multiplied by six), so that they stay integral. *)
(***************************************************************************)
EXTENDS Integers, Sequences, FiniteSets, TLC

VARIABLES
    data,       \* heatmap / blend_value argument: the value mapping
    scale,      \* heatmap argument: the scale of the simplex
    style_arg,  \* heatmap argument style: the style string
    vmin_arg,   \* heatmap argument vmin (None when not supplied)
    vmax_arg,   \* heatmap argument vmax (None when not supplied)
    colorbar,   \* heatmap argument colorbar
    pc,         \* position of the running call
    vmin,       \* heatmap local vmin
    vmax,       \* heatmap local vmax
    style,      \* heatmap local style after style = style.lower()[0]
    items,      \* polygon_iterator: entries of sorted(data.items()) not yet visited
    yielded,    \* pairs yielded by polygon_iterator so far
    fills,      \* ax.fill requests made so far
    cbar,       \* colorbar_hack requests made so far
    err,        \* exception that ended the call, "ok" if none
    call,       \* the last direct call of a pure function: name and arguments
    ret,        \* and what it returned
    tris        \* triangles produced so far by the tiling enumeration

vars == <<data, scale, style_arg, style, vmin_arg, vmax_arg, colorbar, pc, vmin, vmax,
          items, yielded, fills, cbar, err, call, ret, tris>>

heatVars == <<style_arg, style, vmin_arg, vmax_arg, colorbar, vmin, vmax, items,
              yielded, fills, cbar, err>>

\* ---------------------------------------------------------------- bounds
MaxScale == 2
MaxGeomScale == 4
MaxValue == 1
MaxHoles == 1

\* ------------------------------------------------------- Python values
None == <<>>

Num(n) == <<n, 1>>

Ok(v) == [val |-> v, err |-> "ok"]

Raise(e) == [val |-> None, err |-> e]

\* a + b on numbers
Add(a, b) == <<a[1] * b[2] + b[1] * a[2], a[2] * b[2]>>

\* a < b in Python 2: None is below every number
Less(a, b) ==
    IF a = None THEN b # None
    ELSE IF b = None THEN FALSE
    ELSE a[1] * b[2] < b[1] * a[2]

\* Python truthiness of None or a number
Truthy(v) == v # None /\ v[1] # 0

\* lexicographic order of tuples of integers (Python tuple comparison)
RECURSIVE TupleLess(_, _)
TupleLess(a, b) ==
    IF a = <<>> THEN b # <<>>
    ELSE IF b = <<>> THEN FALSE
    ELSE IF a[1] # b[1] THEN a[1] < b[1]
    ELSE TupleLess(Tail(a), Tail(b))

\* ------------------------------------------------ triangular geometry
triangle_coordinates(i, j, k) ==
    << <<i, j, k>>, <<i + 1, j, k - 1>>, <<i, j + 1, k - 1>> >>

\* alt_triangle_coordinates that returns the upright triangle again
alt_triangle_coordinates_upright(i, j, k) ==
    << <<i, j, k>>, <<i + 1, j, k - 1>>, <<i, j + 1, k - 1>> >>

alt_triangle_coordinates(i, j, k) ==
    << <<i, j + 1, k - 1>>, <<i + 1, j + 1, k>>, <<i + 1, j, k - 1>> >>

\* ------------------------------------------------- hexagonal geometry
Times6(p) == <<6 * p[1], 6 * p[2], 6 * p[3]>>

Plus(p, q) == <<p[1] + q[1], p[2] + q[2], p[3] + q[3]>>

Minus(p, q) == <<p[1] - q[1], p[2] - q[2], p[3] - q[3]>>

_alpha == <<-2, 4, 0>>

_deltaup == <<2, 2, 0>>

_deltadown == <<4, -2, 0>>

_i_vec == <<0, 3, -3>>

_i_vec_down == <<3, -3, 0>>

_deltaX_vec == <<3, 0, -3>>

\* the if / elif chain of hexagon_coordinates with the edges tested first
hexagon_branch_edges_first(i, j, k) ==
    LET steps == i + j + k IN
    IF j = 0 THEN "edge_j"
    ELSE IF i = 0 THEN "edge_i"
    ELSE IF k = 0 THEN "edge_k"
    ELSE IF j = steps THEN "corner_j"
    ELSE IF k = steps THEN "corner_k"
    ELSE IF i = steps THEN "corner_i"
    ELSE "interior"

\* the branch of the if / elif chain of hexagon_coordinates that is taken
hexagon_branch(i, j, k) ==
    LET steps == i + j + k IN
    IF j = steps THEN "corner_j"
    ELSE IF k = steps THEN "corner_k"
    ELSE IF i = steps THEN "corner_i"
    ELSE IF j = 0 THEN "edge_j"
    ELSE IF i = 0 THEN "edge_i"
    ELSE IF k = 0 THEN "edge_k"
    ELSE "interior"

hexagon_coordinates(i, j, k) ==
    LET ij == Times6(<<i, j, k>>)
        b == hexagon_branch(i, j, k)
    IN  CASE b = "corner_j" ->
               <<ij, Plus(ij, _i_vec_down), Minus(ij, _alpha), Minus(ij, _i_vec)>>
          [] b = "corner_k" ->
               <<ij, Plus(ij, _i_vec), Plus(ij, _deltaup), Plus(ij, _deltaX_vec)>>
          [] b = "corner_i" ->
               <<ij, Minus(ij, _deltaX_vec), Minus(ij, _deltadown),
                 Minus(ij, _i_vec_down)>>
          [] b = "edge_j" ->
               <<Minus(ij, _deltaX_vec), Minus(ij, _deltadown),
                 Plus(ij, _alpha), Plus(ij, _deltaup), Plus(ij, _deltaX_vec)>>
          [] b = "edge_i" ->
               <<Plus(ij, _i_vec), Plus(ij, _deltaup), Plus(ij, _deltadown),
                 Minus(ij, _alpha), Minus(ij, _i_vec)>>
          [] b = "edge_k" ->
               <<Plus(ij, _i_vec_down), Minus(ij, _alpha), Minus(ij, _deltaup),
                 Minus(ij, _deltadown), Minus(ij, _i_vec_down)>>
          [] OTHER ->
               <<Plus(ij, _alpha), Plus(ij, _deltaup), Plus(ij, _deltadown),
                 Minus(ij, _alpha), Minus(ij, _deltaup), Minus(ij, _deltadown)>>

\* ------------------------------------------------------ value blending
\* sum(data[key] for key in keys), continued from the partial sum acc: a
\* missing key raises KeyError, adding None raises TypeError
RECURSIVE SumValues(_, _, _)
SumValues(d, keys, acc) ==
    IF keys = <<>> THEN Ok(acc)
    ELSE IF Head(keys) \notin DOMAIN d THEN Raise("KeyError")
    ELSE IF d[Head(keys)] = None THEN Raise("TypeError")
    ELSE SumValues(d, Tail(keys), Add(acc, d[Head(keys)]))

\* key[:key_size]
Truncate(key, key_size) ==
    IF Len(key) <= key_size THEN key ELSE SubSeq(key, 1, key_size)

\* blend_value(data, i, j, k, keys): keys = <<>> stands for keys=None and
\* for keys=[], which "not keys" does not tell apart; data.keys()[0] raises
\* IndexError on an empty dict
blend_value(d, i, j, k, keys) ==
    IF DOMAIN d = {} THEN Raise("IndexError")
    ELSE
    LET key_size == Len(CHOOSE key \in DOMAIN d : TRUE)
        keys1 == IF keys = <<>>
                 THEN << <<i, j, k>>, <<i + 1, j, k - 1>>, <<i, j + 1, k - 1>> >>
                 ELSE keys
        keys2 == [n \in DOMAIN keys1 |-> Truncate(keys1[n], key_size)]
        s == SumValues(d, keys2, Num(0))
    IN  IF s.err = "KeyError" THEN Ok(None)
        ELSE IF s.err # "ok" THEN s
        ELSE Ok(<<s.val[1], 3 * s.val[2]>>)

\* alt_blend_value that blends over the corners of the upright triangle
alt_blend_value_plain(d, i, j, k) == blend_value(d, i, j, k, <<>>)

alt_blend_value(d, i, j, k) ==
    LET keys == << <<i, j + 1, k - 1>>, <<i + 1, j + 1, k>>, <<i + 1, j, k - 1>> >>
    IN  blend_value(d, i, j, k, keys)

\* ------------------------------------------------------------ lattice
\* simplex_iterator(scale): every (i, j, k) >= 0 with i + j + k = scale
Simplex(s) ==
    {<<i, j, s - i - j>> : i \in 0..s, j \in 0..s} \cap
    ((0..s) \X (0..s) \X (0..s))

\* the same points as (i, j) keys, as heatmapf stores them
Lattice2(s) == {<<p[1], p[2]>> : p \in Simplex(s)}

\* sorted(): ascending sequence of a set of tuples
RECURSIVE SortedSeq(_)
SortedSeq(S) ==
    IF S = {} THEN <<>>
    ELSE LET m == CHOOSE x \in S : \A y \in S : y = x \/ TupleLess(x, y)
         IN  <<m>> \o SortedSeq(S \ {m})

\* ------------------------------------------------------------ defaults
\* the variables of the heatmap call, while no heatmap call is running
HeatIdle ==
    /\ style_arg = <<>>
    /\ style = <<>>
    /\ vmin_arg = None
    /\ vmax_arg = None
    /\ colorbar = FALSE
    /\ vmin = None
    /\ vmax = None
    /\ items = <<>>
    /\ yielded = <<>>
    /\ fills = <<>>
    /\ cbar = <<>>
    /\ err = "ok"

\* ------------------------------------------- geometry: calls and tiling
\* the anchors of the simplex in ascending order
Anchors(s) == SortedSeq(Simplex(s))

GeomInit ==
    /\ scale \in 1..MaxGeomScale
    /\ data = <<>>
    /\ pc = "geom"
    /\ call = None
    /\ ret = None
    /\ tris = <<>>
    /\ HeatIdle

\* The enumeration of section 4.2: the next anchor (i, j), k = scale - i - j
\* >= 0, is handed to triangle_coordinates and, when k - 1 >= 0, to
\* alt_triangle_coordinates.
TilingStep ==
    /\ pc = "geom"
    /\ Len(tris) < Len(Anchors(scale))
    /\ LET a == Anchors(scale)[Len(tris) + 1]
           i == a[1]
           j == a[2]
           k == scale - i - j
       IN  tris' = Append(tris,
                     [anchor |-> a,
                      upright |-> triangle_coordinates(i, j, k),
                      inverted |-> IF k - 1 >= 0
                                   THEN alt_triangle_coordinates(i, j, k)
                                   ELSE None])
    /\ UNCHANGED <<data, scale, pc, call, ret, heatVars>>

\* hexagon_coordinates(i, j, k) called on a lattice point of the simplex
HexagonCall ==
    /\ pc = "geom"
    /\ \E p \in Simplex(scale) :
          /\ call' = [fn |-> "hexagon_coordinates", args |-> p]
          /\ ret' = hexagon_coordinates(p[1], p[2], p[3])
    /\ UNCHANGED <<data, scale, pc, tris, heatVars>>

GeomNext == TilingStep \/ HexagonCall

SpecGeom == GeomInit /\ [][GeomNext]_vars

\* ------------------------------------------------ geometry: properties
TilingDone == pc = "geom" /\ Len(tris) = Len(Anchors(scale))

Range(f) == {f[n] : n \in DOMAIN f}

Key2(p) == <<p[1], p[2]>>

Abs(x) == IF x < 0 THEN -x ELSE x

\* two lattice points one lattice step apart; for points of the plane
\* i + j + k = scale the (i, j) differences below are the six neighbours
Adjacent2(p, q) ==
    LET di == p[1] - q[1]
        dj == p[2] - q[2]
    IN  /\ <<di, dj>> # <<0, 0>>
        /\ Abs(di) <= 1 /\ Abs(dj) <= 1 /\ Abs(di + dj) <= 1

Adjacent3(p, q) ==
    /\ p # q
    /\ \A n \in 1..3 : Abs(p[n] - q[n]) <= 1

\* the unit cells of a set of lattice points: three points pairwise one step
\* apart
UnitCells(P, Adj(_, _)) ==
    {c \in {{p, q, r} : p \in P, q \in P, r \in P} :
        /\ Cardinality(c) = 3
        /\ \A p \in c : \A q \in c \ {p} : Adj(p, q)}

\* the triangles of the tiling as sets of vertices: upright ones from the
\* anchors with k >= ku, inverted ones from the anchors with k >= ki
ProducedIdx(ku, ki) ==
    {<<"u", n>> : n \in {m \in DOMAIN tris :
                            scale - tris[m].anchor[1] - tris[m].anchor[2] >= ku}}
    \cup
    {<<"i", n>> : n \in {m \in DOMAIN tris :
                            /\ tris[m].inverted # None
                            /\ scale - tris[m].anchor[1] - tris[m].anchor[2] >= ki}}

TriangleAt(x) ==
    IF x[1] = "u" THEN tris[x[2]].upright ELSE tris[x[2]].inverted

IsCorner(p, s) ==
    \E n \in 1..3 : p[n] = s /\ \A m \in (1..3) \ {n} : p[m] = 0

Zeros(p) == Cardinality({n \in 1..3 : p[n] = 0})

\* C3: on every lattice point of the simplex hexagon_coordinates returns 4
\* vertices exactly at the three corners, 5 vertices exactly when exactly one
\* coordinate is zero and the point is no corner, and 6 vertices exactly
\* when no coordinate is zero; it returns no other number of vertices.
C3_HexagonCases ==
    (pc = "geom" /\ call # None) =>
        LET p == call.args
            n == Len(ret)
        IN  /\ n \in {4, 5, 6}
            /\ (n = 4) <=> IsCorner(p, scale)
            /\ (n = 5) <=> (Zeros(p) = 1 /\ ~IsCorner(p, scale))
            /\ (n = 6) <=> (Zeros(p) = 0)

\* a call on a corner of the simplex, which also has zero coordinates
C3_Witness ==
    /\ pc = "geom"
    /\ call # None
    /\ IsCorner(call.args, scale)
    /\ Len(ret) = 4

\* ------------------------------------------------------ value mappings
\* The mappings the calls are made on: the lattice of the simplex with the
\* value v0 + i + 2 * j at (i, j), from which the keys of A are left out and
\* where the keys of N hold None; keyed by (i, j) (width 2) or by (i, j, k)
\* (width 3).  The empty mapping is one of them.
KeyOf(q, s, width) ==
    IF width = 2 THEN <<q[1], q[2]>> ELSE <<q[1], q[2], s - q[1] - q[2]>>

Mapping(s, v0, A, N, width) ==
    [key \in {KeyOf(q, s, width) : q \in Lattice2(s) \ A} |->
        IF Key2(key) \in N THEN None ELSE Num(v0 + key[1] + 2 * key[2])]

Holes(s) ==
    {h \in (SUBSET Lattice2(s)) \X (SUBSET Lattice2(s)) :
        /\ h[1] \cap h[2] = {}
        /\ Cardinality(h[1] \cup h[2]) <= MaxHoles}

Datas(s, width) ==
    {<<>>} \cup
    {Mapping(s, v0, h[1], h[2], width) : v0 \in 0..MaxValue, h \in Holes(s)}

\* --------------------------------------- blending: calls and properties
BlendInit ==
    /\ scale \in 1..MaxScale
    /\ data \in Datas(scale, 2) \cup Datas(scale, 3)
    /\ pc = "blend"
    /\ call = None
    /\ ret = None
    /\ tris = <<>>
    /\ HeatIdle

\* key lists a caller passes to blend_value for the anchor p: none, the
\* three corners of the inverted triangle, one key three times
CallerKeys(p) ==
    {<<>>,
     << <<p[1], p[2] + 1, p[3] - 1>>, <<p[1] + 1, p[2] + 1, p[3] - 2>>,
        <<p[1] + 1, p[2], p[3] - 1>> >>,
     <<p, p, p>>}

\* blend_value(data, i, j, k, keys) called on an anchor of the simplex
BlendCall ==
    /\ pc = "blend"
    /\ \E p \in Simplex(scale) : \E keys \in CallerKeys(p) :
          /\ call' = [fn |-> "blend_value", args |-> p, keys |-> keys]
          /\ ret' = blend_value(data, p[1], p[2], p[3], keys)
    /\ UNCHANGED <<data, scale, pc, tris, heatVars>>

\* alt_blend_value(data, i, j, k) called on an anchor of the simplex
AltBlendCall ==
    /\ pc = "blend"
    /\ \E p \in Simplex(scale) :
          /\ call' = [fn |-> "alt_blend_value", args |-> p, keys |-> <<>>]
          /\ ret' = alt_blend_value(data, p[1], p[2], p[3])
    /\ UNCHANGED <<data, scale, pc, tris, heatVars>>

BlendNext == BlendCall \/ AltBlendCall

SpecBlend == BlendInit /\ [][BlendNext]_vars

\* the keys a blend_value call addresses, before truncation
Addressed(c) ==
    IF c.keys # <<>> THEN c.keys
    ELSE LET p == c.args
         IN  << p, <<p[1] + 1, p[2], p[3] - 1>>, <<p[1], p[2] + 1, p[3] - 1>> >>

\* the key of the mapping d that the addressed key stands for, if there is one
Stored(d, key) == {dk \in DOMAIN d : dk = Truncate(key, Len(dk))}

\* C1: blend_value returns the mean of the three values stored at the keys
\* it addresses when all three are keys of the mapping, and returns None
\* without raising when one of them is missing.
C1_BlendMeanOrNone ==
    (pc = "blend" /\ call # None /\ call.fn = "blend_value") =>
        LET keys == Addressed(call)
            At(n) == data[CHOOSE dk \in Stored(data, keys[n]) : TRUE]
        IN  IF \A n \in 1..3 : Stored(data, keys[n]) # {}
            THEN /\ ret.err = "ok"
                 /\ \A n \in 1..3 : At(n) # None
                 /\ ret.val = <<At(1)[1] + At(2)[1] + At(3)[1], 3>>
            ELSE ret = Ok(None)

\* the mapping keyed by (i, j) that holds the values of d
TwoKeyed(d) == [q \in {Key2(key) : key \in DOMAIN d} |->
                   d[CHOOSE key \in DOMAIN d : Key2(key) = q]]

\* C9: on a mapping keyed by the lattice triples (i, j, k), blend_value and
\* alt_blend_value return what they return on the mapping keyed by (i, j)
\* that holds the same values.
C9_KeyWidthEquivalence ==
    (pc = "blend" /\ call # None /\ DOMAIN data # {}
       /\ \A key \in DOMAIN data : Len(key) = 3) =>
        ret = IF call.fn = "blend_value"
              THEN blend_value(TwoKeyed(data), call.args[1], call.args[2],
                               call.args[3], call.keys)
              ELSE alt_blend_value(TwoKeyed(data), call.args[1], call.args[2],
                                   call.args[3])

\* -------------------------------------------------------------- strings
UpperCase ==
    <<"A", "B", "C", "D", "E", "F", "G", "H", "I", "J", "K", "L", "M",
      "N", "O", "P", "Q", "R", "S", "T", "U", "V", "W", "X", "Y", "Z">>

LowerCase ==
    <<"a", "b", "c", "d", "e", "f", "g", "h", "i", "j", "k", "l", "m",
      "n", "o", "p", "q", "r", "s", "t", "u", "v", "w", "x", "y", "z">>

\* str.lower() on one character and on a string
LowerChar(c) ==
    IF \E n \in DOMAIN UpperCase : UpperCase[n] = c
    THEN LowerCase[CHOOSE n \in DOMAIN UpperCase : UpperCase[n] = c]
    ELSE c

StrLower(str) == [n \in DOMAIN str |-> LowerChar(str[n])]

\* the style strings heatmap is called with: "", "triangular", "T",
\* "Hexagonal", "hex", "H", "dual-triangular", "square"
Styles ==
    {<<>>,
     <<"t", "r", "i", "a", "n", "g", "u", "l", "a", "r">>,
     <<"T">>,
     <<"H", "e", "x", "a", "g", "o", "n", "a", "l">>,
     <<"h", "e", "x">>,
     <<"H">>,
     <<"d", "u", "a", "l", "-", "t", "r", "i", "a", "n", "g", "u", "l", "a", "r">>,
     <<"s", "q", "u", "a", "r", "e">>}

\* the (vmin, vmax) arguments heatmap is called with
RangeArgs ==
    {<<None, None>>, <<Num(0), Num(0)>>, <<Num(1), Num(MaxValue + 7)>>}

\* ------------------------------------------------------ min() and max()
\* min() and max() of a non-empty set of values, None below every number
MinOf(V) == CHOOSE m \in V : \A v \in V : ~Less(v, m)

MaxOf(V) == CHOOSE m \in V : \A v \in V : ~Less(m, v)

\* ---------------------------------------------------- polygon_iterator
Pair(shape, key, vertices, value) ==
    [shape |-> shape, anchor |-> key, vertices |-> vertices, value |-> value]

\* The body of the loop of polygon_iterator for one entry (key, value) whose
\* value is not None: the pairs it yields, in order, and the exception that
\* ends it, if any.  vertices are the lattice vertices handed to project;
\* shape and anchor record which generator made them and for which entry.
EntryPairs(d, s, st, key, value) ==
    LET i == key[1]
        j == key[2]
        k == s - i - j
        up == triangle_coordinates(i, j, k)
        down == alt_triangle_coordinates(i, j, k)
        b == blend_value(d, i, j, k, <<>>)
        a == alt_blend_value(d, i, j, k)
    IN  IF st = "h" THEN
            [pairs |-> <<Pair("hexagon", key, hexagon_coordinates(i, j, k), value)>>,
             err |-> "ok"]
        ELSE IF st = "d" THEN
            IF b.err # "ok"
            THEN [pairs |-> <<Pair("upright", key, up, value)>>, err |-> b.err]
            ELSE [pairs |-> <<Pair("upright", key, up, value),
                              Pair("inverted", key, down, b.val)>>,
                  err |-> "ok"]
        ELSE IF st = "t" THEN
            IF b.err # "ok" THEN [pairs |-> <<>>, err |-> b.err]
            ELSE IF i = s
            THEN [pairs |-> <<Pair("upright", key, up, b.val)>>, err |-> "ok"]
            ELSE IF a.err # "ok"
            THEN [pairs |-> <<Pair("upright", key, up, b.val)>>, err |-> a.err]
            ELSE [pairs |-> <<Pair("upright", key, up, b.val),
                              Pair("inverted", key, down, a.val)>>,
                  err |-> "ok"]
        ELSE [pairs |-> <<>>, err |-> "ok"]

\* sorted(data.items()): keys are unique, so the order is that of the keys
SortedItems(d) ==
    LET keys == SortedSeq(DOMAIN d)
    IN  [n \in DOMAIN keys |-> <<keys[n], d[keys[n]]>>]

\* --------------------------------------------------------------- heatmap
\* the ax.fill requests heatmap makes for the pairs it is handed: one for
\* each pair whose value is not None, coloured by colormapper(value, vmin,
\* vmax)
FillsFor(pairs, lo, hi) ==
    LET kept == SelectSeq(pairs, LAMBDA pr : pr.value # None)
    IN  [n \in DOMAIN kept |->
            [shape |-> kept[n].shape, anchor |-> kept[n].anchor,
             vertices |-> kept[n].vertices, value |-> kept[n].value,
             vmin |-> lo, vmax |-> hi]]

Init ==
    /\ scale \in 1..MaxScale
    /\ data \in Datas(scale, 2)
    /\ style_arg \in Styles
    /\ \E r \in RangeArgs : vmin_arg = r[1] /\ vmax_arg = r[2]
    /\ colorbar \in BOOLEAN
    /\ pc = "start"
    /\ vmin = vmin_arg
    /\ vmax = vmax_arg
    /\ style = style_arg
    /\ items = <<>>
    /\ yielded = <<>>
    /\ fills = <<>>
    /\ cbar = <<>>
    /\ err = "ok"
    /\ call = None
    /\ ret = None
    /\ tris = <<>>

\* if not vmin: vmin = min(data.values()); if not vmax: vmax = max(...).
\* min() and max() of an empty sequence raise ValueError.
ResolveRange ==
    /\ pc = "start"
    /\ LET values == Range(data)
           needed == ~Truthy(vmin) \/ ~Truthy(vmax)
       IN  IF needed /\ values = {}
           THEN /\ pc' = "raised"
                /\ err' = "ValueError"
                /\ UNCHANGED <<vmin, vmax>>
           ELSE /\ pc' = "style"
                /\ vmin' = IF Truthy(vmin) THEN vmin ELSE MinOf(values)
                /\ vmax' = IF Truthy(vmax) THEN vmax ELSE MaxOf(values)
                /\ UNCHANGED err
    /\ UNCHANGED <<data, scale, style_arg, style, vmin_arg, vmax_arg, colorbar,
                   items, yielded, fills, cbar, call, ret, tris>>

\* style = style.lower()[0], the test of the style, and the creation of the
\* iterator over sorted(data.items())
CheckStyle ==
    /\ pc = "style"
    /\ IF style = <<>>
       THEN /\ pc' = "raised"
            /\ err' = "IndexError"
            /\ UNCHANGED <<style, items>>
       ELSE LET letter == StrLower(style)[1]
            IN  /\ style' = letter
                /\ IF letter \notin {"t", "h", "d"}
                   THEN /\ pc' = "raised"
                        /\ err' = "ValueError"
                        /\ UNCHANGED items
                   ELSE /\ pc' = "loop"
                        /\ items' = SortedItems(data)
                        /\ UNCHANGED err
    /\ UNCHANGED <<data, scale, style_arg, vmin_arg, vmax_arg, colorbar,
                   vmin, vmax, yielded, fills, cbar, call, ret, tris>>

\* One entry of sorted(data.items()): polygon_iterator skips it when its
\* value is None, else yields its polygons, and heatmap fills each yielded
\* polygon whose value is not None before the iterator goes on.
IterStep ==
    /\ pc = "loop"
    /\ items # <<>>
    /\ LET key == Head(items)[1]
           value == Head(items)[2]
           e == IF value = None
                THEN [pairs |-> <<>>, err |-> "ok"]
                ELSE EntryPairs(data, scale, style, key, value)
       IN  /\ items' = Tail(items)
           /\ yielded' = yielded \o e.pairs
           /\ fills' = fills \o FillsFor(e.pairs, vmin, vmax)
           /\ err' = e.err
           /\ pc' = IF e.err = "ok" THEN "loop" ELSE "raised"
    /\ UNCHANGED <<data, scale, style_arg, style, vmin_arg, vmax_arg, colorbar,
                   vmin, vmax, cbar, call, ret, tris>>

\* the iterator is exhausted: if colorbar: colorbar_hack(ax, vmin, vmax, ...)
\* and return ax
Finish ==
    /\ pc = "loop"
    /\ items = <<>>
    /\ cbar' = IF colorbar THEN Append(cbar, [vmin |-> vmin, vmax |-> vmax])
               ELSE cbar
    /\ pc' = "done"
    /\ UNCHANGED <<data, scale, style_arg, style, vmin_arg, vmax_arg, colorbar,
                   vmin, vmax, items, yielded, fills, err, call, ret, tris>>

Next == ResolveRange \/ CheckStyle \/ IterStep \/ Finish

Spec == Init /\ [][Next]_vars

\* ---------------------------------------------------- heatmap: properties
Recognized(str) == str # <<>> /\ LowerChar(str[1]) \in {"t", "h", "d"}

\* C4: the style is resolved by the lowercased first letter of the style
\* string alone, and a call with an unrecognized style string ends with
\* ValueError before any fill or colorbar request has been made.
C4_StyleResolution ==
    /\ (Recognized(style_arg) /\ pc \in {"loop", "done"}) =>
           style = LowerChar(style_arg[1])
    /\ ~Recognized(style_arg) =>
           /\ pc \in {"start", "style", "raised"}
           /\ fills = <<>>
           /\ cbar = <<>>
           /\ pc = "raised" => err = "ValueError"

\* the values of the mapping that are not None
Defined(d) == Range(d) \ {None}

\* C5: the colour range of every colour mapping and of the colorbar is the
\* supplied vmin (vmax) whenever one is supplied, and otherwise the minimum
\* (maximum) of the values of the mapping that are not None.
C5_ColourRange ==
    pc \in {"style", "loop", "done"} =>
        LET lo == IF vmin_arg # None THEN vmin_arg
                  ELSE IF Defined(data) = {} THEN None
                  ELSE MinOf(Defined(data))
            hi == IF vmax_arg # None THEN vmax_arg
                  ELSE IF Defined(data) = {} THEN None
                  ELSE MaxOf(Defined(data))
        IN  /\ vmin = lo
            /\ vmax = hi
            /\ \A n \in DOMAIN fills : fills[n].vmin = lo /\ fills[n].vmax = hi
            /\ \A n \in DOMAIN cbar : cbar[n].vmin = lo /\ cbar[n].vmax = hi

\* C6: on a mapping that holds None at some keys, a call with a recognized
\* style never raises, yields no polygon anchored at a key that holds None,
\* requests no fill for a pair whose value is None, and ends with as many
\* fill requests as pairs yielded with a value that is not None.
C6_NoneIsSkipped ==
    (Recognized(style_arg) /\ None \in Range(data)) =>
        /\ pc # "raised"
        /\ \A n \in DOMAIN yielded : data[yielded[n].anchor] # None
        /\ \A n \in DOMAIN fills : fills[n].value # None
        /\ pc = "done" =>
              Len(fills) = Len(SelectSeq(yielded, LAMBDA pr : pr.value # None))

\* the mean of the values of d at the keys, None when a key is missing or
\* holds None
MeanAt(d, keys) ==
    IF \E n \in DOMAIN keys : keys[n] \notin DOMAIN d \/ d[keys[n]] = None
    THEN None
    ELSE <<d[keys[1]][1] + d[keys[2]][1] + d[keys[3]][1], 3>>

UprightKeys(key) ==
    << key, <<key[1] + 1, key[2]>>, <<key[1], key[2] + 1>> >>

InvertedKeys(key) ==
    << <<key[1], key[2] + 1>>, <<key[1] + 1, key[2] + 1>>, <<key[1] + 1, key[2]>> >>

\* the keys of d whose value is not None, ascending
DefinedKeys(d) == SortedSeq({key \in DOMAIN d : d[key] # None})

RECURSIVE Flatten(_)
Flatten(ss) == IF ss = <<>> THEN <<>> ELSE Head(ss) \o Flatten(Tail(ss))

\* a yielded pair without its bookkeeping
Bare(pr) == <<pr.shape, pr.vertices, pr.value>>

\* C7: in dual-triangular style a finished iteration has yielded, for every
\* key with a value that is not None, in ascending key order, the upright
\* triangle with the stored value and then the inverted triangle with the
\* mean of the values at the inverted triangle's own corners (i, j+1),
\* (i+1, j+1), (i+1, j), None if one of them is missing.
C7_DualPairs ==
    (style = "d" /\ pc = "done") =>
        LET keys == DefinedKeys(data)
            K(key) == scale - key[1] - key[2]
            want == Flatten([n \in DOMAIN keys |->
                      << <<"upright",
                           triangle_coordinates(keys[n][1], keys[n][2], K(keys[n])),
                           data[keys[n]]>>,
                         <<"inverted",
                           alt_triangle_coordinates(keys[n][1], keys[n][2], K(keys[n])),
                           MeanAt(data, InvertedKeys(keys[n]))>> >>])
        IN  [n \in DOMAIN yielded |-> Bare(yielded[n])] = want

\* C8: in triangular style a finished iteration has yielded, for every key
\* with a value that is not None, in ascending key order, the upright
\* triangle with the mean over (i, j), (i+1, j), (i, j+1) and then, if and
\* only if i # scale, the inverted triangle with the mean over (i, j+1),
\* (i+1, j+1), (i+1, j); no pair carries the stored value as such.
C8_TriangularPairs ==
    (style = "t" /\ (pc = "done" \/ err = "TypeError")) =>
        LET keys == DefinedKeys(data)
            K(key) == scale - key[1] - key[2]
            want == Flatten([n \in DOMAIN keys |->
                      << <<"upright",
                           triangle_coordinates(keys[n][1], keys[n][2], K(keys[n])),
                           MeanAt(data, UprightKeys(keys[n]))>> >>
                      \o
                      IF keys[n][1] # scale
                      THEN << <<"inverted",
                                alt_triangle_coordinates(keys[n][1], keys[n][2],
                                                         K(keys[n])),
                                MeanAt(data, InvertedKeys(keys[n]))>> >>
                      ELSE <<>>])
        IN  [n \in DOMAIN yielded |-> Bare(yielded[n])] = want

\* the mapping holds a value that is not None at every lattice point and
\* has no other key
FullMapping ==
    /\ DOMAIN data = Lattice2(scale)
    /\ None \notin Range(data)

====
